---- MODULE Spec2Model ----
(***************************************************************************)
(* A model of src/main.py: get_repo_dir (repository acquisition),          *)
(* search_word_in_repo (content scanner), write_output (output writer)     *)
(* and main (the linear driver).                                           *)
(*                                                                         *)
(* Strings are sequences of one-character strings.  File contents are      *)
(* sequences of bytes; the bytes used are the ASCII letters "a" and "A",   *)
(* LF, CR and one byte (BAD) that is not valid UTF-8.  Text written to the *)
(* output file is modelled on a POSIX platform (os.linesep = "\n").        *)
(***************************************************************************)
EXTENDS Integers, Sequences, FiniteSets, TLC

VARIABLES
    pc,             \* position of the run in main / the three stages
    repo_url,       \* args.repo_url
    branch,         \* args.branch: [some |-> FALSE] is None
    cache_dir,      \* does ./repo_cache exist
    exists,         \* does repo_path exist (os.path.exists(repo_path))
    repo_name,      \* get_repo_dir's repo_name
    cmds,           \* the subprocess.run calls made so far, in order
    args_ext,       \* args.extensions, split at ',' ([some |-> FALSE] is None)
    tree,           \* the files of the working copy, in directory-walk order
    word,           \* the search term
    allowed,        \* allowed_extensions ([some |-> FALSE] is None)
    ignore_case,    \* ignore_case
    i,              \* number of files of the walk already handled
    stats,          \* extension_stats
    collected,      \* collected_files
    opened,         \* the paths search_word_in_repo has called open() on
    out,            \* the output file: [there |-> BOOLEAN, data |-> text]
    opens,          \* number of times the output file was opened for writing
    k               \* number of matches write_output has written

vars == <<pc, repo_url, branch, cache_dir, exists, repo_name, cmds, args_ext,
          tree, word, allowed, ignore_case, i, stats, collected, opened,
          out, opens, k>>

acqVars  == <<repo_url, branch, cache_dir, exists, repo_name, cmds>>
scanIn   == <<tree, word, ignore_case>>
scanVars == <<i, stats, collected, opened>>
outVars  == <<out, opens, k>>

-----------------------------------------------------------------------------
(* Bounds of the model *)

MaxUrlLen == 5
MaxFiles == 3

-----------------------------------------------------------------------------
(* Characters and strings *)

LF == "\n"
CR == "\r"
BAD == "0xFF"

None == [some |-> FALSE, val |-> <<>>]
Some(v) == [some |-> TRUE, val |-> v]

\* Python truthiness of an Optional[str] / Optional[list]
Truthy(o) == o.some /\ o.val # <<>>

\* str.lower on one character
LowerChar(c) ==
    CASE c = "A" -> "a"
      [] c = "P" -> "p"
      [] c = "Y" -> "y"
      [] OTHER -> c

\* str.lower
Lower(s) == [j \in 1..Len(s) |-> LowerChar(s[j])]

\* s.startswith(p) at offset j (0-based)
MatchAt(s, p, j) == j + Len(p) <= Len(s) /\ SubSeq(s, j + 1, j + Len(p)) = p

\* `p in s` for strings
Contains(s, p) == \E j \in 0..(Len(s) - Len(p)) : MatchAt(s, p, j)

RECURSIVE Count(_, _)
\* s.count(c) for a single character c
Count(s, c) ==
    IF s = <<>> THEN 0
    ELSE (IF Head(s) = c THEN 1 ELSE 0) + Count(Tail(s), c)

RECURSIVE ReplaceAll(_, _)
\* s.replace(p, '') for non-empty p: every non-overlapping occurrence, left to right
ReplaceAll(s, p) ==
    IF s = <<>> THEN <<>>
    ELSE IF MatchAt(s, p, 0)
         THEN ReplaceAll(SubSeq(s, Len(p) + 1, Len(s)), p)
         ELSE <<Head(s)>> \o ReplaceAll(Tail(s), p)

\* s.split('/')[-1]
LastSegment(s) ==
    LET slashes == {j \in 1..Len(s) : s[j] = "/"}
        last == IF slashes = {} THEN 0
                ELSE CHOOSE j \in slashes : \A m \in slashes : m <= j
    IN SubSeq(s, last + 1, Len(s))

DotGit == <<".", "g", "i", "t">>

\* line 13: repo_url.split('/')[-1].replace('.git', '')
RepoName(url) == ReplaceAll(LastSegment(url), DotGit)

-----------------------------------------------------------------------------
(* The working copy and the reads of its files *)

Range(s) == {s[j] : j \in 1..Len(s)}

\* A file of the working copy: the directories from the repository root down
\* to it, its name, whether open() succeeds on it, and its bytes.
File(d, n, p, b) == [dir |-> d, name |-> n, perm |-> p, bytes |-> b]

\* A walk that descends into .git as well
WalkAll(t) == t

\* lines 46-48: os.walk with every directory named '.git' pruned
Walk(t) == SelectSeq(t, LAMBDA f : ".git" \notin Range(f.dir))

\* line 50: os.path.splitext(file)[1]: from the last dot on, unless only dots
\* (or nothing) come before it
SplitExt(n) ==
    LET dots == {j \in 1..Len(n) : n[j] = "."}
        last == IF dots = {} THEN 0
                ELSE CHOOSE j \in dots : \A m \in dots : m <= j
    IN IF last # 0 /\ \E j \in 1..(last - 1) : n[j] # "."
       THEN SubSeq(n, last, Len(n))
       ELSE <<>>

\* line 50: the lower-cased extension of a file
Extension(f) == Lower(SplitExt(f.name))

RECURSIVE JoinDir(_)
JoinDir(d) == IF d = <<>> THEN <<>> ELSE <<Head(d), "/">> \o JoinDir(Tail(d))

\* lines 49, 70: os.path.relpath(os.path.join(root, file), repo_path)
RelPath(f) == JoinDir(f.dir) \o f.name

RECURSIVE Newlines(_)
\* text-mode read with newline=None: CRLF and a lone CR both become LF
Newlines(b) ==
    IF b = <<>> THEN <<>>
    ELSE IF Head(b) = CR
         THEN IF Len(b) >= 2 /\ b[2] = LF
              THEN <<LF>> \o Newlines(SubSeq(b, 3, Len(b)))
              ELSE <<LF>> \o Newlines(Tail(b))
         ELSE <<Head(b)>> \o Newlines(Tail(b))

\* A read with errors='replace': an undecodable byte becomes "?"
ReadTextReplace(f) ==
    IF ~f.perm THEN [ok |-> FALSE, err |-> "Exception", text |-> <<>>]
    ELSE [ok |-> TRUE, err |-> "",
          text |-> Newlines([j \in 1..Len(f.bytes) |->
                                IF f.bytes[j] = BAD THEN "?" ELSE f.bytes[j]])]

\* lines 57-58 and 73-77: open(file_path, 'r', encoding='utf-8') and f.read()
ReadText(f) ==
    IF ~f.perm THEN [ok |-> FALSE, err |-> "Exception", text |-> <<>>]
    ELSE IF BAD \in Range(f.bytes)
         THEN [ok |-> FALSE, err |-> "UnicodeDecodeError", text |-> <<>>]
         ELSE [ok |-> TRUE, err |-> "", text |-> Newlines(f.bytes)]

\* A scan that ignores the allow-list
FilteredNever(f, al) == FALSE

\* line 53: is the file skipped by the extension filter
Filtered(f, al) == Truthy(al) /\ Extension(f) \notin Range(al.val)

\* lines 67-69: the word search
Found(content, w, ic) ==
    LET search_content == IF ic THEN Lower(content) ELSE content
        search_word == IF ic THEN Lower(w) ELSE w
    IN Contains(search_content, search_word)

\* A line count without the + 1
NumLinesNoPlusOne(content) == Count(content, LF)

\* line 60: num_lines
NumLines(content) == Count(content, LF) + 1

\* extension_stats[extension], a defaultdict entry
StatOf(st, e) == IF e \in DOMAIN st THEN st[e] ELSE [files |-> 0, lines |-> 0]

\* lines 63-64: both counters of one extension updated
AddStat(st, e, n) ==
    [x \in DOMAIN st \cup {e} |->
        IF x = e THEN [files |-> StatOf(st, e).files + 1,
                       lines |-> StatOf(st, e).lines + n]
        ELSE st[x]]

\* lines 99-101: the three writes for one match
Block(m) == <<"<filename>">> \o m[1] \o <<"</filename>", LF>> \o m[2] \o <<LF>>

-----------------------------------------------------------------------------
(* get_repo_dir *)

\* One subprocess.run(..., check=True) call as recorded in cmds: the git
\* operation, the arguments that vary, and whether git exited with status 0.
Cmd(op, extra, ok) == [op |-> op, extra |-> extra, ok |-> ok]

\* A clone that never passes --branch
CloneFlagsNone(b) == <<>>

\* lines 20-22: clone_cmd beyond ['git', 'clone', repo_url, repo_path]
CloneFlags(b) == IF Truthy(b) THEN <<"--branch", b.val>> ELSE <<>>

\* lines 15-16: os.path.join(cache_dir, repo_name) names a directory that
\* exists as soon as ./repo_cache does: ./repo_cache/, ./repo_cache/. and
\* ./repo_cache/..
InCacheDir(name) == name \in {<<>>, <<".">>, <<".", ".">>}

\* lines 13-16: the cache directory name is derived and ./repo_cache made
Enter ==
    /\ pc = "get_repo_dir"
    /\ repo_name' = RepoName(repo_url)
    /\ cache_dir' = TRUE
    /\ exists' = (exists \/ InCacheDir(RepoName(repo_url)))
    /\ pc' = "exists"
    /\ UNCHANGED <<repo_url, branch, cmds, args_ext, allowed>>
    /\ UNCHANGED <<scanIn, scanVars, outVars>>

\* lines 18-23, 32: the repository is not cached: git clone.  A clone that
\* succeeds has made repo_path; one that fails may have made it or not (git
\* can fail after creating the directory, e.g. at the checkout).
Clone ==
    /\ pc = "exists"
    /\ ~exists
    /\ \E ok \in BOOLEAN :
        /\ cmds' = Append(cmds, Cmd("clone", CloneFlags(branch), ok))
        /\ exists' \in (IF ok THEN {TRUE} ELSE BOOLEAN)
        /\ pc' = IF ok THEN "main" ELSE "aborted"
    /\ UNCHANGED <<repo_url, branch, cache_dir, repo_name, args_ext, allowed>>
    /\ UNCHANGED <<scanIn, scanVars, outVars>>

\* A get_repo_dir that fetches whenever the repository is cached
UseExistingFetch ==
    /\ pc = "exists"
    /\ exists
    /\ ~Truthy(branch)
    /\ \E ok \in BOOLEAN :
        /\ cmds' = Append(cmds, [op |-> "fetch", extra |-> <<>>, ok |-> ok])
        /\ pc' = IF ok THEN "main" ELSE "aborted"
    /\ UNCHANGED <<repo_url, branch, cache_dir, exists, repo_name>>
    /\ UNCHANGED <<args_ext, allowed, scanIn, scanVars, outVars>>

\* lines 24-26, 32: the repository is cached and no branch is given
UseExisting ==
    /\ pc = "exists"
    /\ exists
    /\ ~Truthy(branch)
    /\ pc' = "main"
    /\ UNCHANGED <<acqVars, args_ext, allowed, scanIn, scanVars, outVars>>

\* A fetch run without check=True: its exit status is ignored
FetchUnchecked ==
    /\ pc = "exists"
    /\ exists
    /\ Truthy(branch)
    /\ \E ok \in BOOLEAN :
        /\ cmds' = Append(cmds, [op |-> "fetch", extra |-> <<>>, ok |-> ok])
        /\ pc' = "checkout"
    /\ UNCHANGED <<repo_url, branch, cache_dir, exists, repo_name>>
    /\ UNCHANGED <<args_ext, allowed, scanIn, scanVars, outVars>>

\* lines 26-28: the repository is cached and a branch is given: git fetch
Fetch ==
    /\ pc = "exists"
    /\ exists
    /\ Truthy(branch)
    /\ \E ok \in BOOLEAN :
        /\ cmds' = Append(cmds, Cmd("fetch", <<>>, ok))
        /\ pc' = IF ok THEN "checkout" ELSE "aborted"
    /\ UNCHANGED <<repo_url, branch, cache_dir, exists, repo_name>>
    /\ UNCHANGED <<args_ext, allowed, scanIn, scanVars, outVars>>

\* A checkout after which get_repo_dir returns without pulling
CheckoutNoPull ==
    /\ pc = "checkout"
    /\ \E ok \in BOOLEAN :
        /\ cmds' = Append(cmds, [op |-> "checkout", extra |-> <<branch.val>>, ok |-> ok])
        /\ pc' = IF ok THEN "main" ELSE "aborted"
    /\ UNCHANGED <<repo_url, branch, cache_dir, exists, repo_name>>
    /\ UNCHANGED <<args_ext, allowed, scanIn, scanVars, outVars>>

\* line 29: git checkout <branch>
Checkout ==
    /\ pc = "checkout"
    /\ \E ok \in BOOLEAN :
        /\ cmds' = Append(cmds, Cmd("checkout", <<branch.val>>, ok))
        /\ pc' = IF ok THEN "pull" ELSE "aborted"
    /\ UNCHANGED <<repo_url, branch, cache_dir, exists, repo_name>>
    /\ UNCHANGED <<args_ext, allowed, scanIn, scanVars, outVars>>

\* lines 30, 32: git pull
Pull ==
    /\ pc = "pull"
    /\ \E ok \in BOOLEAN :
        /\ cmds' = Append(cmds, Cmd("pull", <<>>, ok))
        /\ pc' = IF ok THEN "main" ELSE "aborted"
    /\ UNCHANGED <<repo_url, branch, cache_dir, exists, repo_name>>
    /\ UNCHANGED <<args_ext, allowed, scanIn, scanVars, outVars>>

-----------------------------------------------------------------------------
(* main, after get_repo_dir has returned *)

\* line 116: allowed_extensions
AllowedOf(ae) ==
    IF Truthy(ae) THEN Some([j \in 1..Len(ae.val) |-> Lower(ae.val[j])])
    ELSE None

\* lines 116-117: the allow-list is parsed and search_word_in_repo entered
MainSearch ==
    /\ pc = "main"
    /\ allowed' = AllowedOf(args_ext)
    /\ pc' = "scan"
    /\ UNCHANGED <<acqVars, args_ext, scanIn, scanVars, outVars>>

-----------------------------------------------------------------------------
(* search_word_in_repo *)

\* lines 49-77: the scan's handling of one file, as new (stats, collected)
ScanOne(f, st, col, op, w, al, ic) ==
    IF Filtered(f, al) THEN [stats |-> st, collected |-> col, opened |-> op]
    ELSE LET r == ReadText(f) IN
         IF ~r.ok
         THEN [stats |-> st, collected |-> col, opened |-> Append(op, RelPath(f))]
         ELSE [stats |-> AddStat(st, Extension(f), NumLines(r.text)),
               collected |-> IF Found(r.text, w, ic)
                             THEN Append(col, <<RelPath(f), r.text>>)
                             ELSE col,
               opened |-> Append(op, RelPath(f))]

\* lines 46-77: one iteration of the loop over the files of the walk
ScanFile ==
    /\ pc = "scan"
    /\ i < Len(Walk(tree))
    /\ LET r == ScanOne(Walk(tree)[i + 1], stats, collected, opened,
                        word, allowed, ignore_case)
       IN /\ stats' = r.stats
          /\ collected' = r.collected
          /\ opened' = r.opened
    /\ i' = i + 1
    /\ UNCHANGED <<pc, acqVars, args_ext, allowed, scanIn, outVars>>

\* lines 79-93, 118: the walk is over; collected_files goes to write_output
ScanDone ==
    /\ pc = "scan"
    /\ i = Len(Walk(tree))
    /\ pc' = "write_output"
    /\ UNCHANGED <<acqVars, args_ext, allowed, scanIn, scanVars, outVars>>

-----------------------------------------------------------------------------
(* write_output *)

\* The output file opened with mode 'a': created, but not truncated
WriteOpenAppend ==
    /\ pc = "write_output"
    /\ out' = [there |-> TRUE, data |-> out.data]
    /\ opens' = opens + 1
    /\ k' = 0
    /\ pc' = "writing"
    /\ UNCHANGED <<acqVars, args_ext, allowed, scanIn, scanVars>>

\* line 97: open(output_file, 'w'): the file is created or truncated
WriteOpen ==
    /\ pc = "write_output"
    /\ out' = [there |-> TRUE, data |-> <<>>]
    /\ opens' = opens + 1
    /\ k' = 0
    /\ pc' = "writing"
    /\ UNCHANGED <<acqVars, args_ext, allowed, scanIn, scanVars>>

\* lines 98-101: one match is written
WriteBlock ==
    /\ pc = "writing"
    /\ k < Len(collected)
    /\ out' = [out EXCEPT !.data = @ \o Block(collected[k + 1])]
    /\ k' = k + 1
    /\ UNCHANGED <<pc, opens, acqVars, args_ext, allowed, scanIn, scanVars>>

\* lines 97, 102: the with block is left and the file closed
WriteClose ==
    /\ pc = "writing"
    /\ k = Len(collected)
    /\ pc' = "done"
    /\ UNCHANGED <<acqVars, args_ext, allowed, scanIn, scanVars, outVars>>

-----------------------------------------------------------------------------
(* Inputs *)

\* All strings over alphabet A of length at most n
Strings(A, n) == UNION {[1..m -> A] : m \in 0..n}

UrlChars == {"/", ".", "g", "i", "t", "x"}

\* "x/x.git"
MainUrl == <<"x", "/", "x", ".", "g", "i", "t">>

\* "x/x.git" and "x/", whose last path segment is empty
MainUrls == {MainUrl, <<"x", "/">>}

\* --branch absent, --branch "" and --branch d
Branches == {None, Some(<<>>), Some(<<"d">>)}

\* --extensions absent, --extensions "" and --extensions .PY
ArgsExts == {None, Some(<<>>), Some(<< <<".", "P", "Y">> >>)}

\* allowed_extensions None, [] and ['.py']
Alloweds == {None, Some(<<>>), Some(<< <<".", "p", "y">> >>)}

Words == {<<"a">>, <<"A">>}

\* empty, one line without and with a newline, CRLF and CR line ends, and
\* bytes that are not UTF-8
Contents == {<<>>, <<"a">>, <<"A", LF>>, <<"a", CR, LF>>, <<CR, "a">>, <<BAD, "a">>}

NameA == <<"a", ".", "p", "y">>
NameB == <<"b", ".", "P", "Y">>
NameC == <<"c">>

\* a.py, c, sub/b.PY with every content, each also as a file that cannot be
\* opened, and .git/a.py
Files ==
    {File(<<>>, NameA, TRUE, b) : b \in Contents}
    \cup {File(<<>>, NameC, TRUE, b) : b \in Contents}
    \cup {File(<<"sub">>, NameB, TRUE, b) : b \in Contents}
    \cup {File(<<>>, NameA, FALSE, <<"a">>), File(<<>>, NameC, FALSE, <<"a">>),
          File(<<"sub">>, NameB, FALSE, <<"a">>)}
    \cup {File(<<".git">>, NameA, TRUE, <<"a">>)}

\* A directory walk: no path twice, the files of the root before the files
\* of its subdirectories
IsWalkOrder(t) ==
    \A p, q \in 1..Len(t) :
        p < q => /\ RelPath(t[p]) # RelPath(t[q])
                 /\ Len(t[p].dir) <= Len(t[q].dir)

Trees == {t \in Strings(Files, MaxFiles) : IsWalkOrder(t)}

MainTrees ==
    { <<>>,
      <<File(<<>>, NameA, TRUE, <<"a">>)>>,
      <<File(<<>>, NameA, TRUE, <<"a", CR, LF>>), File(<<>>, NameC, TRUE, <<BAD, "a">>)>> }

NoFile == [there |-> FALSE, data |-> <<>>]
OldFile == [there |-> TRUE, data |-> <<"o", "l", "d">>]

NoStats == [e \in {} |-> [files |-> 0, lines |-> 0]]

-----------------------------------------------------------------------------
(* Specifications *)

\* A run of main
Init ==
    /\ pc = "get_repo_dir"
    /\ repo_url \in MainUrls
    /\ branch \in Branches
    /\ cache_dir \in BOOLEAN
    /\ exists \in BOOLEAN
    /\ exists => cache_dir
    /\ (cache_dir /\ InCacheDir(RepoName(repo_url))) => exists
    /\ repo_name = <<>>
    /\ cmds = <<>>
    /\ args_ext \in ArgsExts
    /\ tree \in MainTrees
    /\ word = <<"a">>
    /\ allowed = None
    /\ ignore_case = FALSE
    /\ i = 0
    /\ stats = NoStats
    /\ collected = <<>>
    /\ opened = <<>>
    /\ out \in {NoFile, OldFile}
    /\ opens = 0
    /\ k = 0

Next ==
    \/ Enter
    \/ Clone
    \/ UseExisting
    \/ Fetch
    \/ Checkout
    \/ Pull
    \/ MainSearch
    \/ ScanFile
    \/ ScanDone
    \/ WriteOpen
    \/ WriteBlock
    \/ WriteClose

Spec == Init /\ [][Next]_vars

\* search_word_in_repo called on any working copy, then write_output on its result
SearchInit ==
    /\ pc = "scan"
    /\ repo_url = MainUrl
    /\ branch = None
    /\ cache_dir = TRUE
    /\ exists = TRUE
    /\ repo_name = RepoName(MainUrl)
    /\ cmds = <<>>
    /\ args_ext = None
    /\ tree \in Trees
    /\ word \in Words
    /\ allowed \in Alloweds
    /\ ignore_case \in BOOLEAN
    /\ i = 0
    /\ stats = NoStats
    /\ collected = <<>>
    /\ opened = <<>>
    /\ out \in {NoFile, OldFile}
    /\ opens = 0
    /\ k = 0

SearchNext ==
    \/ ScanFile
    \/ ScanDone
    \/ WriteOpen
    \/ WriteBlock
    \/ WriteClose

SearchSpec == SearchInit /\ [][SearchNext]_vars

\* get_repo_dir's cache directory name for any URL
NameInit ==
    /\ pc = "get_repo_dir"
    /\ repo_url \in Strings(UrlChars, MaxUrlLen)
    /\ branch = None
    /\ cache_dir = FALSE
    /\ exists = FALSE
    /\ repo_name = <<>>
    /\ cmds = <<>>
    /\ args_ext = None
    /\ tree = <<>>
    /\ word = <<"a">>
    /\ allowed = None
    /\ ignore_case = FALSE
    /\ i = 0
    /\ stats = NoStats
    /\ collected = <<>>
    /\ opened = <<>>
    /\ out = NoFile
    /\ opens = 0
    /\ k = 0

NameNext == Enter

NameSpec == NameInit /\ [][NameNext]_vars

-----------------------------------------------------------------------------
(* Repository acquisition: claims C1, C2, C3, C9, C10 *)

\* A branch is supplied when --branch names one (a non-empty string)
BranchSupplied(b) == b.some /\ Len(b.val) > 0

\* get_repo_dir has returned to main
Returned == pc \in {"main", "scan", "write_output", "writing", "done"}

Ops(c) == [j \in 1..Len(c) |-> c[j].op]

IsPrefix(s, t) == Len(s) <= Len(t) /\ SubSeq(t, 1, Len(s)) = s

\* some version-control command exited non-zero
Failed == \E j \in 1..Len(cmds) : ~cmds[j].ok

\* C1: when the cache directory exists and no branch is supplied, get_repo_dir
\* returns the existing path having run no git command, and none is run later.
C1_NoCommandWhenCached ==
    /\ [][(pc = "exists" /\ exists /\ ~BranchSupplied(branch))
            => (cmds' = <<>> /\ pc' = "main" /\ UNCHANGED <<repo_name, exists>>)]_vars
    /\ [][(Returned /\ cmds = <<>>) => cmds' = <<>>]_vars

C1_Witness == pc = "done" /\ exists /\ ~BranchSupplied(branch) /\ cmds = <<>>

\* C2: when the cache directory does not exist, exactly one clone is run and
\* nothing else; the clone has --branch <branch> iff a branch was supplied.
C2_OneCloneWhenAbsent ==
    /\ [][(pc = "exists" /\ ~exists)
            => /\ Len(cmds') = 1
               /\ cmds'[1].op = "clone"
               /\ cmds'[1].extra = IF BranchSupplied(branch)
                                   THEN <<"--branch", branch.val>> ELSE <<>>]_vars
    /\ [][(cmds # <<>> /\ cmds[1].op = "clone") => cmds' = cmds]_vars

C2_Witness ==
    /\ pc = "done"
    /\ Len(cmds) = 1
    /\ cmds[1].op = "clone"
    /\ cmds[1].extra = <<"--branch", <<"d">>>>

\* C3: once a git command has exited non-zero the run is aborted: the failed
\* command is the last one run, the scan has not started, the output file
\* has not been opened, and nothing happens any more.
C3_FailureAborts ==
    /\ [](Failed => /\ pc = "aborted"
                    /\ \A j \in 1..Len(cmds) : ~cmds[j].ok => j = Len(cmds)
                    /\ i = 0 /\ opened = <<>> /\ stats = NoStats /\ collected = <<>>
                    /\ opens = 0)
    /\ [][Failed => UNCHANGED vars]_vars
    /\ [][Failed' => out' = out]_vars

C3_Witness ==
    /\ pc = "aborted"
    /\ Len(cmds) = 2
    /\ cmds[1].ok
    /\ ~cmds[2].ok

\* s without a final p
StripSuffix(s, p) ==
    IF Len(s) >= Len(p) /\ SubSeq(s, Len(s) - Len(p) + 1, Len(s)) = p
    THEN SubSeq(s, 1, Len(s) - Len(p))
    ELSE s

\* C9: the cache directory name is the URL's last path segment with only a
\* trailing ".git" removed.
C9_OnlyTrailingGitRemoved ==
    pc = "exists" => repo_name = StripSuffix(LastSegment(repo_url), DotGit)

\* C10: when the cache directory exists and a branch is supplied, the git
\* commands run are fetch, checkout <branch>, pull, in this order, each once
\* and each only after the one before it succeeded; there is no clone.
C10_FetchCheckoutPull ==
    /\ [][(pc = "exists" /\ exists /\ BranchSupplied(branch))
            => (Len(cmds') = 1 /\ cmds'[1].op = "fetch")]_vars
    /\ []((cmds # <<>> /\ cmds[1].op = "fetch")
            => /\ IsPrefix(Ops(cmds), <<"fetch", "checkout", "pull">>)
               /\ Len(cmds) >= 2 => cmds[2].extra = <<branch.val>>
               /\ \A j \in 1..(Len(cmds) - 1) : cmds[j].ok
               /\ Returned => (Len(cmds) = 3 /\ cmds[3].ok))

C10_Witness ==
    /\ pc = "done"
    /\ Ops(cmds) = <<"fetch", "checkout", "pull">>
    /\ cmds[2].extra = << <<"d">> >>

-----------------------------------------------------------------------------
(* Content scanner: claims C4, C5, C6, C7 *)

\* search_word_in_repo has returned
Finished == pc \in {"write_output", "writing", "done"}

\* the file lies in a version-control metadata directory
InGit(f) == \E j \in 1..Len(f.dir) : f.dir[j] = ".git"

ValidUtf8(f) == \A j \in 1..Len(f.bytes) : f.bytes[j] # BAD

\* a file that can be opened and whose bytes are not valid UTF-8
IsBinary(f) == f.perm /\ ~ValidUtf8(f)

AllowListGiven == allowed.some /\ Len(allowed.val) > 0

InAllowList(f) == \E j \in 1..Len(allowed.val) : allowed.val[j] = Extension(f)

PassesFilter(f) == AllowListGiven => InAllowList(f)

\* the scan read the file as text
ReadOk(f) == ~InGit(f) /\ PassesFilter(f) /\ f.perm /\ ValidUtf8(f)

SameChar(c, d) == IF ignore_case THEN LowerChar(c) = LowerChar(d) ELSE c = d

\* the file contains the search term, under the case rule of the run
HasTerm(f) ==
    \E j \in 0..(Len(f.bytes) - Len(word)) :
        \A m \in 1..Len(word) : SameChar(f.bytes[j + m], word[m])

Exts == {Extension(tree[p]) : p \in 1..Len(tree)}

\* the files of extension e that the scan read
ReadFiles(e) == {p \in 1..Len(tree) : ReadOk(tree[p]) /\ Extension(tree[p]) = e}

\* how often a path is in the match list
Occurrences(path) == Cardinality({j \in 1..Len(collected) : collected[j][1] = path})

\* C4: after the scan every file outside .git is counted in the statistics
\* once if it was read as text and not otherwise, and is in the match list
\* once if it passed the filter, was read as text and contains the term, and
\* not otherwise.
C4_EachFileOnce ==
    Finished =>
        /\ DOMAIN stats = {e \in Exts : ReadFiles(e) # {}}
        /\ \A e \in DOMAIN stats : stats[e].files = Cardinality(ReadFiles(e))
        /\ \A p \in 1..Len(tree) :
              Occurrences(RelPath(tree[p])) =
                  IF ReadOk(tree[p]) /\ HasTerm(tree[p]) THEN 1 ELSE 0
        /\ Len(collected) =
              Cardinality({p \in 1..Len(tree) : ReadOk(tree[p]) /\ HasTerm(tree[p])})

C4_Witness ==
    /\ Finished
    /\ Len(collected) = 1
    /\ \E p \in 1..Len(tree) : InGit(tree[p]) /\ HasTerm(tree[p])
    /\ \E p \in 1..Len(tree) : ReadOk(tree[p]) /\ HasTerm(tree[p])

\* C5: with a non-empty allow-list, a file whose lower-cased extension is not
\* in the list is never opened, never counted and never in the match list.
C5_FilteredFileUntouched ==
    \A p \in 1..Len(tree) :
        (AllowListGiven /\ ~InAllowList(tree[p])) =>
            /\ RelPath(tree[p]) \notin Range(opened)
            /\ Occurrences(RelPath(tree[p])) = 0
            /\ Extension(tree[p]) \notin DOMAIN stats

C5_Witness ==
    /\ Finished
    /\ AllowListGiven
    /\ Len(tree) = 2
    /\ ~InAllowList(tree[1]) /\ ~InGit(tree[1]) /\ HasTerm(tree[1])
    /\ tree[1].perm /\ ValidUtf8(tree[1])
    /\ Len(collected) = 1

\* the line ends of a file: every LF, and every CR that no LF follows
\* (a CR LF pair is one line end)
LineEnds(b) ==
    Count(b, LF) + Cardinality({j \in 1..Len(b) :
                                  b[j] = CR /\ ~(j < Len(b) /\ b[j + 1] = LF)})

RECURSIVE LinesUpTo(_, _)
\* sum over the read files of extension e among the first n of (line ends + 1)
LinesUpTo(e, n) ==
    IF n = 0 THEN 0
    ELSE LinesUpTo(e, n - 1)
         + (IF n \in ReadFiles(e) THEN LineEnds(tree[n].bytes) + 1 ELSE 0)

RECURSIVE RawLinesUpTo(_, _)
\* the same sum with only the '\n' bytes of the file counted
RawLinesUpTo(e, n) ==
    IF n = 0 THEN 0
    ELSE RawLinesUpTo(e, n - 1)
         + (IF n \in ReadFiles(e) THEN Count(tree[n].bytes, LF) + 1 ELSE 0)

\* C6 as stated: after the scan, lines of every extension is the sum over its
\* read files of (number of '\n' in the file + 1) and files their number.
C6_LinesAreNewlinesPlusOne ==
    Finished =>
        \A e \in Exts :
            /\ StatOf(stats, e).lines = RawLinesUpTo(e, Len(tree))
            /\ StatOf(stats, e).files = Cardinality(ReadFiles(e))

\* C6 amended: after the scan, lines of every extension is the sum over its
\* read files of (number of line ends + 1), a line end being an LF, a CR LF
\* pair or a lone CR; files is the number of those files; an empty file
\* counts as one line; and no counter ever decreases.
C6_LinesAreLineEndsPlusOne ==
    /\ [](Finished =>
            \A e \in Exts :
                /\ StatOf(stats, e).lines = LinesUpTo(e, Len(tree))
                /\ StatOf(stats, e).files = Cardinality(ReadFiles(e)))
    /\ [][\A e \in DOMAIN stats :
            /\ e \in DOMAIN stats'
            /\ stats'[e].files >= stats[e].files
            /\ stats'[e].lines >= stats[e].lines]_vars

C6_Witness ==
    /\ Finished
    /\ Len(tree) = 2
    /\ Extension(tree[1]) = Extension(tree[2])
    /\ ReadOk(tree[1]) /\ tree[1].bytes = <<>>
    /\ ReadOk(tree[2]) /\ tree[2].bytes = <<CR, "a">>
    /\ StatOf(stats, Extension(tree[1])) = [files |-> 2, lines |-> 3]

RECURSIVE ScanAll(_, _)
\* the statistics, matches and opens of a scan of the first n files of walk w
ScanAll(w, n) ==
    IF n = 0 THEN [stats |-> NoStats, collected |-> <<>>, opened |-> <<>>]
    ELSE LET r == ScanAll(w, n - 1)
         IN ScanOne(w[n], r.stats, r.collected, r.opened, word, allowed, ignore_case)

\* the tree without its binary files
NoBinary(t) == SelectSeq(t, LAMBDA f : ~IsBinary(f))

\* C7: a file that is not valid UTF-8 is in neither the statistics nor the
\* match list, and the scan goes on: it ends having visited every file, with
\* the statistics and matches of the same tree without the binary files.
C7_BinarySkipped ==
    Finished =>
        /\ i = Cardinality({p \in 1..Len(tree) : ~InGit(tree[p])})
        /\ \A p \in 1..Len(tree) :
              IsBinary(tree[p]) => Occurrences(RelPath(tree[p])) = 0
        /\ \A e \in Exts :
              (\A p \in 1..Len(tree) : Extension(tree[p]) = e => IsBinary(tree[p]))
                  => e \notin DOMAIN stats
        /\ LET w == Walk(NoBinary(tree))
               r == ScanAll(w, Len(w))
           IN stats = r.stats /\ collected = r.collected

C7_Witness ==
    /\ Finished
    /\ Len(tree) = 2
    /\ IsBinary(tree[1]) /\ PassesFilter(tree[1]) /\ ~InGit(tree[1])
    /\ opened = <<RelPath(tree[1]), RelPath(tree[2])>>
    /\ Extension(tree[1]) = Extension(tree[2])
    /\ StatOf(stats, Extension(tree[2])).files = 1
    /\ Len(collected) = 1

-----------------------------------------------------------------------------
(* Output writer: claim C8 *)

\* the file of the working copy at a relative path
FileAt(path) == CHOOSE f \in Range(tree) : RelPath(f) = path

\* the bytes of a file as text: every CR that an LF follows dropped, every
\* other CR turned into LF
AsText(b) ==
    LET keep == SelectSeq([j \in 1..Len(b) |-> j],
                          LAMBDA j : ~(b[j] = CR /\ j < Len(b) /\ b[j + 1] = LF))
    IN [m \in 1..Len(keep) |-> IF b[keep[m]] = CR THEN LF ELSE b[keep[m]]]

RECURSIVE RawBlocks(_)
\* one block per match, for the first n matches, with the file's own bytes
RawBlocks(n) ==
    IF n = 0 THEN <<>>
    ELSE RawBlocks(n - 1)
         \o <<"<filename>">> \o collected[n][1] \o <<"</filename>", LF>>
         \o FileAt(collected[n][1]).bytes \o <<LF>>

RECURSIVE TextBlocks(_)
\* one block per match, for the first n matches, with the file's bytes as text
TextBlocks(n) ==
    IF n = 0 THEN <<>>
    ELSE TextBlocks(n - 1)
         \o <<"<filename>">> \o collected[n][1] \o <<"</filename>", LF>>
         \o AsText(FileAt(collected[n][1]).bytes) \o <<LF>>

\* C8 as stated: after write_output the output file holds exactly, in match
\* order, <filename>path</filename>, a newline, the file's unmodified
\* content and a newline for every match, and nothing else.
C8_OutputIsUnmodifiedContent ==
    pc = "done" => (out.there /\ out.data = RawBlocks(Len(collected)))

\* C8 amended: after write_output the output file holds exactly, in match
\* order, <filename>path</filename>, a newline, the file's content as the
\* scan read it (CR LF and lone CR turned into LF, otherwise unmodified) and
\* a newline for every match, and nothing of what it held before; with no
\* match it exists and is empty.
C8_OutputIsTextContent ==
    pc = "done" =>
        /\ out.there
        /\ out.data = TextBlocks(Len(collected))
        /\ collected = <<>> => out.data = <<>>

C8_Witness ==
    /\ pc = "done"
    /\ Len(collected) = 2
    /\ FileAt(collected[1][1]).bytes = <<"a", CR, LF>>
    /\ out.data = <<"<filename>", "a", ".", "p", "y", "</filename>", LF, "a", LF, LF,
                    "<filename>", "c", "</filename>", LF, "a", LF>>

====
